---- MODULE Spec2Model ----
(***************************************************************************)
(* Model of src/main.py: the validation-gated story pipeline               *)
(* (StorytellingSystem.process_story_segment), the Judge's response        *)
(* parser (_parse_json_evaluation) and the interactive session that        *)
(* appends the pipeline's results to the story state.                      *)
(*                                                                         *)
(* Text.  A Python string is a sequence of tokens.  A token is a brace     *)
(* character, a run of whitespace, a word of prose, or a well-formed JSON  *)
(* object literal "{...}" carrying its key/value pairs.  An object token   *)
(* begins with '{' and ends with '}', so str.find('{'), str.rfind('}')     *)
(* and slicing between them always fall on token boundaries.               *)
(***************************************************************************)
EXTENDS Integers, Sequences, FiniteSets, TLC

VARIABLES
    spc,              \* position of run_interactive_story
    story_state,      \* self.story_state (StoryState)
    ppc,              \* position inside process_story_segment
    call,             \* arguments and call site of the running pipeline call
    attempt,          \* loop variable of process_story_segment
    story_segment,    \* local story_segment of process_story_segment
    evaluation,       \* local evaluation of process_story_segment
    ret,              \* value returned by process_story_segment
    gen_calls,        \* generate_story_segment invocations in this call
    judge_calls,      \* evaluate_story_segment invocations in this call
    revise_calls,     \* revise_story_segment invocations in this call
    segment_src,      \* which callee produced the value held in story_segment
    judged,           \* the candidate handed to the Judge last, and its origin
    last_append,      \* the last update_story_state call and the call behind it
    evaluation_text,  \* the Judge's raw response (evaluation_response)
    parsed,           \* outcome of _parse_json_evaluation(evaluation_text)
    backend,          \* the last call_model invocation: its requests and outcome
    meta_calls,       \* _extract_story_metadata invocations since the last reset
    accepts           \* update_story_state invocations since the last reset

vars == <<spc, story_state, ppc, call, attempt, story_segment, evaluation, ret,
          gen_calls, judge_calls, revise_calls, segment_src, judged,
          last_append, evaluation_text, parsed, backend, meta_calls, accepts>>

session_vars == <<spc, story_state, last_append, meta_calls, accepts>>
pipeline_vars == <<ppc, call, attempt, story_segment, evaluation, ret,
                   gen_calls, judge_calls, revise_calls, segment_src, judged,
                   evaluation_text, parsed>>

----------------------------------------------------------------------------
(* Bounds of the model *)

\* longest run of junk tokens before and after the payload of a response
MaxJunk == 1
\* segments a session may append before it must end or exit
MaxSegments == 2

----------------------------------------------------------------------------
(* Tokens and strings *)

LB == [k |-> "lb"]
RB == [k |-> "rb"]
WS == [k |-> "ws"]
Word(w) == [k |-> "txt", w |-> w]
ObjTok(f) == [k |-> "obj", f |-> f]

Text(w) == <<Word(w)>>
EmptyStr == <<>>

\* str.strip(): drop leading and trailing whitespace
RECURSIVE LStrip(_)
LStrip(s) == IF s # <<>> /\ Head(s).k = "ws" THEN LStrip(Tail(s)) ELSE s

RECURSIVE RStrip(_)
RStrip(s) ==
    IF s # <<>> /\ s[Len(s)].k = "ws" THEN RStrip(SubSeq(s, 1, Len(s) - 1)) ELSE s

Strip(s) == RStrip(LStrip(s))

\* Python s[a:b] for 0 <= a, with 0-based a and exclusive b
Slice(s, a, b) == SubSeq(s, a + 1, b)

HasOpen(tok) == tok.k \in {"lb", "obj"}
HasClose(tok) == tok.k \in {"rb", "obj"}

\* s.find('{'): 0-based position of the first '{', -1 when there is none
find_lbrace(s) ==
    IF \E i \in 1..Len(s) : HasOpen(s[i])
    THEN (CHOOSE i \in 1..Len(s) :
              HasOpen(s[i]) /\ \A j \in 1..(i - 1) : ~HasOpen(s[j])) - 1
    ELSE -1

\* a scan for the first '}' instead of the last one
find_rbrace(s) ==
    IF \E i \in 1..Len(s) : HasClose(s[i])
    THEN (CHOOSE i \in 1..Len(s) :
              HasClose(s[i]) /\ \A j \in 1..(i - 1) : ~HasClose(s[j])) - 1
    ELSE -1

\* s.rfind('}'): 0-based position of the last '}', -1 when there is none
rfind_rbrace(s) ==
    IF \E i \in 1..Len(s) : HasClose(s[i])
    THEN (CHOOSE i \in 1..Len(s) :
              HasClose(s[i]) /\ \A j \in (i + 1)..Len(s) : ~HasClose(s[j])) - 1
    ELSE -1

----------------------------------------------------------------------------
(* JSON values as Python sees them after json.loads *)

JStr(s) == [t |-> "str", s |-> s]
JInt(n) == [t |-> "int", n |-> n]
\* a float, kept in tenths: 3.7 is JFloat(37)
JFloat(x) == [t |-> "float", tenths |-> x]
JBool(b) == [t |-> "bool", b |-> b]
JNull == [t |-> "null"]
JList(items) == [t |-> "list", items |-> items]
JObj == [t |-> "dict"]

NoFields == [x \in {} |-> x]

\* dict.get(key, default)
Get(data, key, default) == IF key \in DOMAIN data THEN data[key] ELSE default

\* json.loads on a span that starts with '{' and ends with '}': the span is
\* JSON exactly when it is one object literal, or an empty pair of braces
json_loads(s) ==
    IF Len(s) = 1 /\ s[1].k = "obj"
    THEN [ok |-> TRUE, data |-> s[1].f]
    ELSE IF /\ Len(s) >= 2
            /\ s[1].k = "lb"
            /\ s[Len(s)].k = "rb"
            /\ \A i \in 2..(Len(s) - 1) : s[i].k = "ws"
         THEN [ok |-> TRUE, data |-> NoFields]
         ELSE [ok |-> FALSE, exc |-> "JSONDecodeError"]

\* words Python's int() reads as an integer literal
IntWords == {"1", "2", "3", "4", "5"}
IntOfWord(w) ==
    CASE w = "1" -> 1 [] w = "2" -> 2 [] w = "3" -> 3 [] w = "4" -> 4
      [] w = "5" -> 5

\* words Python's float() reads, in tenths
FloatWords == IntWords \cup {"4.5"}
TenthsOfWord(w) == IF w \in IntWords THEN 10 * IntOfWord(w) ELSE 45

\* int(v): ValueError on a string that is no integer literal, TypeError on
\* None, a list or a dict
py_int(v) ==
    CASE v.t = "int" -> [ok |-> TRUE, v |-> v.n]
      [] v.t = "float" -> [ok |-> TRUE, v |-> v.tenths \div 10]
      [] v.t = "bool" -> [ok |-> TRUE, v |-> IF v.b THEN 1 ELSE 0]
      [] v.t = "str" ->
            LET x == Strip(v.s) IN
            IF Len(x) = 1 /\ x[1].k = "txt" /\ x[1].w \in IntWords
            THEN [ok |-> TRUE, v |-> IntOfWord(x[1].w)]
            ELSE [ok |-> FALSE, exc |-> "ValueError"]
      [] OTHER -> [ok |-> FALSE, exc |-> "TypeError"]

\* float(v), in tenths
py_float(v) ==
    CASE v.t = "int" -> [ok |-> TRUE, v |-> 10 * v.n]
      [] v.t = "float" -> [ok |-> TRUE, v |-> v.tenths]
      [] v.t = "bool" -> [ok |-> TRUE, v |-> IF v.b THEN 10 ELSE 0]
      [] v.t = "str" ->
            LET x == Strip(v.s) IN
            IF Len(x) = 1 /\ x[1].k = "txt" /\ x[1].w \in FloatWords
            THEN [ok |-> TRUE, v |-> TenthsOfWord(x[1].w)]
            ELSE [ok |-> FALSE, exc |-> "ValueError"]
      [] OTHER -> [ok |-> FALSE, exc |-> "TypeError"]

----------------------------------------------------------------------------
(* The Judge's response parser *)

JudgeEvaluation(s, q, c, r, f) ==
    [is_safe |-> s, quality_score |-> q, specific_concerns |-> c,
     revision_suggestions |-> r, confidence |-> f]

\* the except branch of _parse_json_evaluation
ConservativeEvaluation ==
    JudgeEvaluation(FALSE, 1,
                    JList(<<Text("Unable to parse evaluation response")>>),
                    JList(<<Text("Please generate more appropriate content for children")>>),
                    10)

Returned(e) == [kind |-> "eval", e |-> e]
Raised(exc) == [kind |-> "raise", exc |-> exc]
NotParsed == [kind |-> "none"]

\* the exceptions the except clause of _parse_json_evaluation catches;
\* json.JSONDecodeError is a ValueError
CaughtByParser == {"JSONDecodeError", "ValueError", "KeyError"}

\* a verdict lookup whose default is "SAFE"
VerdictIsSafeDefaultSafe(data) ==
    Get(data, "verdict", JStr(Text("SAFE"))) = JStr(Text("SAFE"))

\* is_safe=(data.get("verdict", "UNSAFE") == "SAFE")
VerdictIsSafe(data) == Get(data, "verdict", JStr(Text("UNSAFE"))) = JStr(Text("SAFE"))

\* the try block: the string scan, json.loads and the JudgeEvaluation built
\* from the payload, its keyword arguments evaluated in order
ParseTry(text) ==
    LET json_start == find_lbrace(text)
        json_end == rfind_rbrace(text) + 1
    IN  IF json_start # -1 /\ json_end > json_start
        THEN LET loaded == json_loads(Slice(text, json_start, json_end)) IN
             IF ~loaded.ok THEN Raised(loaded.exc)
             ELSE LET data == loaded.data
                      q == py_int(Get(data, "quality_score", JInt(1)))
                      c == py_float(Get(data, "confidence", JFloat(10)))
                  IN  IF ~q.ok THEN Raised(q.exc)
                      ELSE IF ~c.ok THEN Raised(c.exc)
                      ELSE Returned(JudgeEvaluation(
                               VerdictIsSafe(data), q.v,
                               Get(data, "concerns", JList(<<>>)),
                               Get(data, "suggestions", JList(<<>>)),
                               c.v))
        ELSE Raised("ValueError")

_parse_json_evaluation(text) ==
    LET r == ParseTry(text) IN
    IF r.kind = "raise" /\ r.exc \in CaughtByParser
    THEN Returned(ConservativeEvaluation)
    ELSE r

\* gates that look at one field only, and a gate with the threshold off by one
AcceptsOnSafetyAlone(e) == e.is_safe
AcceptsOnQualityAlone(e) == e.quality_score >= 3
AcceptsFromFour(e) == e.is_safe /\ e.quality_score >= 4

\* the acceptance gate of process_story_segment
Accepts(e) == e.is_safe /\ e.quality_score >= 3

----------------------------------------------------------------------------
(* Generator and Reviser: the story text taken from a backend response *)

ReturnedText(text) == [kind |-> "text", text |-> text]

\* an except clause that catches decode errors only
CatchesDecodeErrorsOnly(exc) == exc = "JSONDecodeError"

\* except: (a bare except clause catches every exception)
CaughtByBareExcept(exc) == TRUE

\* the try block of generate_story_segment and of revise_story_segment:
\* data.get("story", response).strip() for the JSON object in the span; the
\* .strip() of a value that is not a string raises AttributeError
StoryTry(resp) ==
    LET json_start == find_lbrace(resp)
        json_end == rfind_rbrace(resp) + 1
    IN  IF json_start # -1 /\ json_end > json_start
        THEN LET loaded == json_loads(Slice(resp, json_start, json_end)) IN
             IF ~loaded.ok THEN Raised(loaded.exc)
             ELSE LET story == Get(loaded.data, "story", JStr(resp)) IN
                  IF story.t = "str"
                  THEN ReturnedText(Strip(story.s))
                  ELSE Raised("AttributeError")
        ELSE NotParsed

\* the try/except and the statement after it: what the try block returned,
\* otherwise (nothing returned, or an exception caught) the whole response,
\* stripped
ExtractStory(resp) ==
    LET r == StoryTry(resp) IN
    IF r.kind = "text" THEN r
    ELSE IF r.kind = "raise" /\ ~CaughtByBareExcept(r.exc) THEN r
    ELSE ReturnedText(Strip(resp))

generate_story_segment(resp) == ExtractStory(resp)

revise_story_segment(resp) == ExtractStory(resp)

----------------------------------------------------------------------------
(* Fallback stories and the results of process_story_segment *)

FallbackEnding == Text("And so our adventure comes to a happy end.")
FallbackOpening == Text("Once upon a time, there was a kind little bunny named Benny")

\* a fallback that ignores the mode
OpeningFallbackAlways(is_ending) == FallbackOpening

_get_fallback_story(is_ending) ==
    IF is_ending THEN FallbackEnding ELSE FallbackOpening

\* a retry budget one larger
FourAttempts == 3 + 1

\* self.max_retry_attempts
max_retry_attempts == 3

\* return story_segment, True
ApprovedResult(segment) == [text |-> segment, success |-> TRUE]

\* return self._get_fallback_story(is_ending), False
FallbackResult(is_ending) ==
    [text |-> _get_fallback_story(is_ending), success |-> FALSE]

NoResult == [text |-> EmptyStr, success |-> FALSE]
NoCall == [site |-> "none", is_continuation |-> FALSE, is_ending |-> FALSE]
NoEvaluation == JudgeEvaluation(FALSE, 0, JList(<<>>), JList(<<>>), 0)
NotJudged == [text |-> EmptyStr, src |-> "none", attempt |-> 0]

----------------------------------------------------------------------------
(* Backend responses the model draws from *)

Payload(v, q, c) == ("verdict" :> v) @@ ("quality_score" :> q) @@ ("confidence" :> c)

GenResponses ==
    { <<WS, Word("Mia finds a kite"), WS>>,
      <<ObjTok("story" :> JStr(Text("Leo plants a seed")))>> }

ReviseResponses ==
    { <<Word("Mia shares the kite")>>,
      <<Word("Here"), ObjTok("story" :> JStr(Text("Leo plants a seed")))>> }

JudgeResponses ==
    { <<ObjTok(Payload(JStr(Text("SAFE")), JInt(4), JFloat(45)))>>,
      <<Word("Result"), ObjTok(("verdict" :> JStr(Text("SAFE")))
                               @@ ("quality_score" :> JInt(3)))>>,
      <<ObjTok(("verdict" :> JStr(Text("SAFE"))) @@ ("quality_score" :> JInt(2))
               @@ ("concerns" :> JList(<<Text("too dull")>>)))>>,
      <<ObjTok(Payload(JStr(Text("UNSAFE")), JInt(5), JInt(5)))>>,
      <<ObjTok("quality_score" :> JInt(5))>>,
      <<Word("Looks"), Word("fine")>>,
      <<ObjTok(("verdict" :> JStr(Text("SAFE")))
               @@ ("quality_score" :> JStr(Text("good"))))>>,
      <<ObjTok(("verdict" :> JStr(Text("SAFE"))) @@ ("quality_score" :> JNull))>> }

MetadataResponses ==
    { <<ObjTok(("characters" :> JList(<<Text("Mia")>>))
               @@ ("setting" :> JStr(Text("a windy hill")))
               @@ ("theme" :> JStr(Text("Friendship"))))>>,
      <<ObjTok("characters" :> JList(<<Text("Leo")>>))>>,
      <<Word("Mia"), Word("on"), Word("a"), Word("hill")>> }

RewriteResponses ==
    { <<WS, Word("The whole story, told anew"), WS>>, <<WS>> }

----------------------------------------------------------------------------
(* Narrative state *)

StoryState(full_story, characters, setting, theme, current_segment, segment_count) ==
    [full_story |-> full_story, characters |-> characters, setting |-> setting,
     theme |-> theme, current_segment |-> current_segment,
     segment_count |-> segment_count]

\* StoryState()
EmptyStoryState ==
    StoryState(EmptyStr, JList(<<>>), JStr(EmptyStr), JStr(EmptyStr), EmptyStr, 0)

\* the "\n\n" between two segments of full_story
BlankLine == [k |-> "ws", w |-> "\n\n"]

\* a segment joined to the transcript with no separator
AppendWithoutSeparator(st, new_segment) ==
    [st EXCEPT !.current_segment = new_segment,
               !.full_story = st.full_story \o new_segment,
               !.segment_count = st.segment_count + 1]

\* update_story_state up to the metadata test
AppendSegment(st, new_segment) ==
    [st EXCEPT !.current_segment = new_segment,
               !.full_story = IF st.full_story # EmptyStr
                               THEN st.full_story \o <<BlankLine>> \o new_segment
                               ELSE new_segment,
               !.segment_count = st.segment_count + 1]

StateResult(st) == [kind |-> "state", st |-> st]

\* the fallback values of _extract_story_metadata
MetadataFallback(st) ==
    [st EXCEPT !.characters = JList(<<Text("Main character")>>),
               !.setting = JStr(Text("A friendly place")),
               !.theme = JStr(Text("Adventure"))]

\* the try block of _extract_story_metadata
MetadataTry(st, metadata_response) ==
    LET json_start == find_lbrace(metadata_response)
        json_end == rfind_rbrace(metadata_response) + 1
    IN  IF json_start # -1 /\ json_end > json_start
        THEN LET loaded == json_loads(Slice(metadata_response, json_start, json_end))
             IN  IF ~loaded.ok THEN Raised(loaded.exc)
                 ELSE StateResult(
                     [st EXCEPT
                         !.characters = Get(loaded.data, "characters", JList(<<>>)),
                         !.setting = Get(loaded.data, "setting",
                                         JStr(Text("Unknown setting"))),
                         !.theme = Get(loaded.data, "theme", JStr(Text("Adventure")))])
        ELSE StateResult(MetadataFallback(st))

\* an except clause without json.JSONDecodeError
CaughtKeyErrorOnly == {"KeyError"}

\* except (json.JSONDecodeError, KeyError)
CaughtByExtractor == {"JSONDecodeError", "KeyError"}

\* _extract_story_metadata after the backend call
ApplyMetadata(st, metadata_response) ==
    LET r == MetadataTry(st, metadata_response) IN
    IF r.kind = "raise" /\ r.exc \in CaughtByExtractor
    THEN StateResult(MetadataFallback(st))
    ELSE r

NoAppend == [text |-> EmptyStr, approved |-> FALSE, made |-> FALSE]

----------------------------------------------------------------------------
(* call_model: one backend call and its rate-limit retries *)

\* what one request to the backend does: it answers ("ok"), fails with a
\* rate-limit error (HTTP 429, "429"), fails otherwise with an error whose
\* text holds no "429" ("error"), or fails otherwise with an error whose text
\* does hold the digits 429, such as a token count or a request id
\* ("error_429")
Outcomes == {"ok", "429", "error", "error_429"}

\* max_retries = 3
max_retries == 3

\* "429" in str(e)
Mentions429(outcome) == outcome \in {"429", "error_429"}

\* the outcomes the requests of one call would meet, in order. call_model
\* makes no further request after an answer or a failure it does not retry,
\* so only a rate limit is followed by a different outcome; an error that
\* merely mentions 429 either lifts at once or stays
OutcomeScripts ==
    { script \in [1..max_retries -> {"ok", "429", "error"}] :
        \A i \in 1..(max_retries - 1) :
            script[i] # "429" => script[i + 1] = script[i] }
    \cup { [i \in 1..max_retries |-> IF i = 1 THEN "error_429" ELSE "ok"],
           [i \in 1..max_retries |-> "error_429"] }

\* if "429" in str(e) and attempt < max_retries - 1
ShouldRetry(outcome, n) == Mentions429(outcome) /\ n < max_retries - 1

\* time.sleep(2 ** attempt)
Backoff(n) == 2 ^ n

\* the for loop of call_model from request number n on (the loop's attempt,
\* counted from 0): trace is the
\* outcome of every request made, slept the delays before the retries
RECURSIVE CallModelFrom(_, _, _, _, _)
CallModelFrom(script, content, n, trace, slept) ==
    IF n >= max_retries
    THEN [ok |-> TRUE, text |-> EmptyStr, trace |-> trace, slept |-> slept]
    ELSE LET outcome == script[n + 1]
             seen == Append(trace, outcome)
         IN  IF outcome = "ok"
             THEN [ok |-> TRUE, text |-> content, trace |-> seen, slept |-> slept]
             ELSE IF ShouldRetry(outcome, n)
                  THEN CallModelFrom(script, content, n + 1, seen,
                                     Append(slept, Backoff(n)))
                  ELSE [ok |-> FALSE, text |-> EmptyStr, trace |-> seen,
                        slept |-> slept]

call_model(script, content) == CallModelFrom(script, content, 0, <<>>, <<>>)

\* the contents the backend can answer with under a script; a call that
\* fails returns none
ContentsFor(script, responses) ==
    IF call_model(script, EmptyStr).ok THEN responses ELSE {EmptyStr}

BackendCall(caller, r) ==
    [caller |-> caller, ok |-> r.ok, text |-> r.text, trace |-> r.trace,
     slept |-> r.slept]

NoBackend ==
    [caller |-> "none", ok |-> TRUE, text |-> EmptyStr, trace |-> <<>>,
     slept |-> <<>>]

----------------------------------------------------------------------------
(* Initial state: the state after StorytellingSystem() *)

Init ==
    /\ spc = "begin"
    /\ story_state = EmptyStoryState
    /\ ppc = "idle"
    /\ call = NoCall
    /\ attempt = 0
    /\ story_segment = EmptyStr
    /\ evaluation = NoEvaluation
    /\ ret = NoResult
    /\ gen_calls = 0
    /\ judge_calls = 0
    /\ revise_calls = 0
    /\ segment_src = "none"
    /\ judged = NotJudged
    /\ last_append = NoAppend
    /\ evaluation_text = EmptyStr
    /\ parsed = NotParsed
    /\ backend = NoBackend
    /\ meta_calls = 0
    /\ accepts = 0

----------------------------------------------------------------------------
(* process_story_segment *)

\* entry of process_story_segment(user_input, is_continuation, is_ending)
EnterPipeline(site, is_continuation, is_ending) ==
    /\ ppc' = "generate"
    /\ call' = [site |-> site, is_continuation |-> is_continuation,
                is_ending |-> is_ending]
    /\ attempt' = 0
    /\ story_segment' = EmptyStr
    /\ evaluation' = NoEvaluation
    /\ ret' = NoResult
    /\ gen_calls' = 0
    /\ judge_calls' = 0
    /\ revise_calls' = 0
    /\ segment_src' = "none"
    /\ judged' = NotJudged
    /\ evaluation_text' = EmptyStr
    /\ parsed' = NotParsed
    /\ backend' = NoBackend

\* the frame of process_story_segment is gone once the caller has its result
LeavePipeline ==
    /\ ppc' = "idle"
    /\ call' = NoCall
    /\ attempt' = 0
    /\ story_segment' = EmptyStr
    /\ evaluation' = NoEvaluation
    /\ ret' = NoResult
    /\ gen_calls' = 0
    /\ judge_calls' = 0
    /\ revise_calls' = 0
    /\ segment_src' = "none"
    /\ judged' = NotJudged
    /\ evaluation_text' = EmptyStr
    /\ parsed' = NotParsed

\* an exception handled inside the pipeline by returning the fallback
SwallowedByFallback ==
    /\ ppc' = "returned"
    /\ ret' = FallbackResult(call.is_ending)
    /\ UNCHANGED spc

\* an exception leaves process_story_segment and run_interactive_story: neither
\* has a handler around the pipeline call, so it ends in main() and the call
\* returns nothing
Propagate ==
    /\ ppc' = "raised"
    /\ spc' = "crashed"
    /\ UNCHANGED ret

\* a loop counter that does not advance
AttemptStuck(i, requests) == i

\* a loop counter shared with call_model's requests
AttemptSharedWithRequests(i, requests) == i + requests

\* for attempt in range(self.max_retry_attempts): the loop advances its own
\* counter by one, whatever the number of requests call_model made
next_attempt(i, requests) == i + 1

\* writing the candidate into the story state from inside the pipeline
StoreCandidate(st, segment) == [st EXCEPT !.current_segment = segment]

\* process_story_segment and its callees read self.story_state for their
\* prompts and assign no field of it
PipelineKeeps(st, segment) == st

\* story_segment = self.generate_story_segment(...)
Generate ==
    /\ ppc = "generate"
    /\ gen_calls' = gen_calls + 1
    /\ \E script \in OutcomeScripts :
         \E content \in ContentsFor(script, GenResponses) :
           LET r == call_model(script, content) IN
           /\ backend' = BackendCall("generator", r)
           /\ IF r.ok
              THEN LET o == generate_story_segment(r.text) IN
                   IF o.kind = "text"
                   THEN /\ story_segment' = o.text
                        /\ story_state' = PipelineKeeps(story_state, story_segment')
                        /\ segment_src' = "generator"
                        /\ ppc' = "evaluate"
                        /\ UNCHANGED <<spc, ret>>
                   ELSE /\ Propagate
                        /\ UNCHANGED <<story_state, story_segment, segment_src>>
              ELSE /\ Propagate
                   /\ UNCHANGED <<story_state, story_segment, segment_src>>
    /\ UNCHANGED <<last_append, meta_calls, accepts, call, attempt, evaluation,
                   judge_calls, revise_calls, judged, evaluation_text, parsed>>

\* evaluation = self.evaluate_story_segment(story_segment), then the gate and
\* the choice between returning, revising and the fallback
Evaluate ==
    /\ ppc = "evaluate"
    /\ judge_calls' = judge_calls + 1
    /\ judged' = [text |-> story_segment, src |-> segment_src, attempt |-> attempt]
    /\ \E script \in OutcomeScripts :
         \E content \in ContentsFor(script, JudgeResponses) :
           LET r == call_model(script, content)
               p == _parse_json_evaluation(r.text)
           IN
           /\ backend' = BackendCall("judge", r)
           /\ IF ~r.ok
              THEN /\ Propagate
                   /\ UNCHANGED <<evaluation, evaluation_text, parsed>>
              ELSE /\ evaluation_text' = r.text
                   /\ parsed' = p
                   /\ IF p.kind = "raise"
                      THEN /\ Propagate
                           /\ UNCHANGED evaluation
                      ELSE /\ evaluation' = p.e
                           /\ UNCHANGED spc
                           /\ IF Accepts(p.e)
                              THEN /\ ret' = ApprovedResult(story_segment)
                                   /\ ppc' = "returned"
                              ELSE IF attempt < max_retry_attempts - 1
                                   THEN /\ ppc' = "revise"
                                        /\ UNCHANGED ret
                                   ELSE /\ ret' = FallbackResult(call.is_ending)
                                        /\ ppc' = "returned"
    /\ story_state' = PipelineKeeps(story_state, story_segment)
    /\ UNCHANGED <<last_append, meta_calls, accepts, call, attempt,
                   story_segment, gen_calls, revise_calls, segment_src>>

\* story_segment = self.revise_story_segment(story_segment, evaluation), then
\* the next turn of the for loop
Revise ==
    /\ ppc = "revise"
    /\ revise_calls' = revise_calls + 1
    /\ \E script \in OutcomeScripts :
         \E content \in ContentsFor(script, ReviseResponses) :
           LET r == call_model(script, content) IN
           /\ backend' = BackendCall("reviser", r)
           /\ IF r.ok
              THEN LET o == revise_story_segment(r.text) IN
                   IF o.kind = "text"
                   THEN /\ story_segment' = o.text
                        /\ segment_src' = "reviser"
                        /\ IF next_attempt(attempt, Len(r.trace)) < max_retry_attempts
                           THEN /\ attempt' = next_attempt(attempt, Len(r.trace))
                                /\ ppc' = "generate"
                                /\ UNCHANGED <<spc, ret>>
                           ELSE /\ ret' = FallbackResult(call.is_ending)
                                /\ ppc' = "returned"
                                /\ UNCHANGED <<spc, attempt>>
                   ELSE /\ Propagate
                        /\ UNCHANGED <<story_segment, segment_src, attempt>>
              ELSE /\ Propagate
                   /\ UNCHANGED <<story_segment, segment_src, attempt>>
    /\ story_state' = PipelineKeeps(story_state, story_segment)
    /\ UNCHANGED <<last_append, meta_calls, accepts, call, evaluation,
                   gen_calls, judge_calls, judged, evaluation_text, parsed>>

----------------------------------------------------------------------------
(* run_interactive_story *)

\* the first process_story_segment(user_input, is_continuation=False)
StartStory ==
    /\ spc = "begin"
    /\ spc' = "in_call"
    /\ EnterPipeline("initial", FALSE, FALSE)
    /\ UNCHANGED <<story_state, last_append, meta_calls, accepts>>

\* metadata extraction on every segment
ExtractsOnEverySegment(before, after) == after.segment_count >= 1

\* metadata extraction whenever the transcript was empty before the segment
ExtractsWhenTranscriptWasEmpty(before, after) == before.full_story = EmptyStr

\* if self.story_state.segment_count == 1
NeedsMetadata(before, after) == after.segment_count = 1

\* an update of the story state for approved segments only
UpdatesOnSuccessOnly(site, success) == success

\* `if not success:` only prints a warning; self.update_story_state(
\* story_segment) follows at every call site, whatever success is
CallsUpdate(site, success) == TRUE

\* self.update_story_state(story_segment) with the pipeline's result, at each
\* of its call sites; the ending turn leaves the loop afterwards
AcceptSegment ==
    /\ ppc = "returned"
    /\ spc = "in_call"
    /\ last_append' =
          IF CallsUpdate(call.site, ret.success)
          THEN [text |-> ret.text,
                approved |-> /\ judged.text = ret.text
                             /\ evaluation.is_safe
                             /\ evaluation.quality_score >= 3,
                made |-> TRUE]
          ELSE last_append
    /\ accepts' = IF CallsUpdate(call.site, ret.success) THEN accepts + 1
                                                          ELSE accepts
    /\ LeavePipeline
    /\ LET st == IF CallsUpdate(call.site, ret.success)
                 THEN AppendSegment(story_state, ret.text)
                 ELSE story_state
       IN
       IF CallsUpdate(call.site, ret.success) /\ NeedsMetadata(story_state, st)
       THEN /\ meta_calls' = meta_calls + 1
            /\ \E script \in OutcomeScripts :
                 \E content \in ContentsFor(script, MetadataResponses) :
                   LET r == call_model(script, content) IN
                   /\ backend' = BackendCall("metadata", r)
                   /\ IF r.ok
                      THEN LET m == ApplyMetadata(st, r.text) IN
                           IF m.kind = "state"
                           THEN /\ story_state' = m.st
                                /\ spc' = IF call.site = "end" THEN "ended"
                                                               ELSE "menu"
                           ELSE /\ story_state' = st
                                /\ spc' = "crashed"
                      ELSE /\ story_state' = st
                           /\ spc' = "crashed"
       ELSE /\ story_state' = st
            /\ spc' = IF call.site = "end" THEN "ended" ELSE "menu"
            /\ backend' = NoBackend
            /\ UNCHANGED meta_calls

MayGrow == story_state.segment_count < MaxSegments

\* choice '1'
ContinueStory ==
    /\ spc = "menu"
    /\ MayGrow
    /\ spc' = "in_call"
    /\ EnterPipeline("continue", TRUE, FALSE)
    /\ UNCHANGED <<story_state, last_append, meta_calls, accepts>>

\* choice '2'
EndStory ==
    /\ spc = "menu"
    /\ MayGrow
    /\ spc' = "in_call"
    /\ EnterPipeline("end", FALSE, TRUE)
    /\ UNCHANGED <<story_state, last_append, meta_calls, accepts>>

\* choice '3'
ContinueWithSuggestion ==
    /\ spc = "menu"
    /\ MayGrow
    /\ spc' = "in_call"
    /\ EnterPipeline("suggest", TRUE, FALSE)
    /\ UNCHANGED <<story_state, last_append, meta_calls, accepts>>

\* a rewrite that starts the segment count over
ReplaceStoryAndCount(st, text) ==
    [st EXCEPT !.full_story = text, !.segment_count = 0]

\* a rewrite added to the transcript instead of replacing it
ReplaceStoryByAppending(st, text) ==
    [st EXCEPT !.full_story = st.full_story \o text]

\* a rewrite that also overwrites the setting
ReplaceStoryAndSetting(st, text) ==
    [st EXCEPT !.full_story = text, !.setting = JStr(text)]

\* self.story_state.full_story = revised_story
ReplaceStory(st, text) == [st EXCEPT !.full_story = text]

\* a rewrite failure that leaves run_interactive_story as a pipeline failure
\* does
RewriteFailurePropagates ==
    /\ spc' = "crashed"
    /\ UNCHANGED story_state

\* except Exception as e: a message is printed and the loop goes on to the
\* next menu choice
CaughtRewriteFailure ==
    /\ spc' = "menu"
    /\ UNCHANGED story_state

\* the try/except around a whole-story rewrite: the rewrite operation
\* returns the stripped response, which replaces full_story; a failed backend
\* call is caught and changes nothing
RewriteStory(operation) ==
    /\ \E script \in OutcomeScripts :
         \E content \in ContentsFor(script, RewriteResponses) :
           LET r == call_model(script, content) IN
           /\ backend' = BackendCall(operation, r)
           /\ IF r.ok
              THEN /\ story_state' = ReplaceStory(story_state, Strip(r.text))
                   /\ spc' = "menu"
              ELSE CaughtRewriteFailure
    /\ UNCHANGED <<last_append, meta_calls, accepts, pipeline_vars>>

\* choice '4'
RequestChanges ==
    /\ spc = "menu"
    /\ RewriteStory("request_story_changes")

\* choice '5'
ChangeTone ==
    /\ spc = "menu"
    /\ RewriteStory("change_story_tone")

\* choice '6'
AddCharacter ==
    /\ spc = "menu"
    /\ RewriteStory("add_new_character")

\* choice '7'
ChangeSetting ==
    /\ spc = "menu"
    /\ RewriteStory("change_story_setting")

\* a reset that keeps the segment count
ResetKeepingCount(st) ==
    [EmptyStoryState EXCEPT !.segment_count = st.segment_count]

\* self.story_state = StoryState()
reset_story_state(st) == EmptyStoryState

\* choice '8': start_new_story resets the state, then runs the pipeline
NewStory ==
    /\ spc = "menu"
    /\ story_state' = reset_story_state(story_state)
    /\ meta_calls' = 0
    /\ accepts' = 0
    /\ spc' = "in_call"
    /\ EnterPipeline("new", FALSE, FALSE)
    /\ UNCHANGED last_append

\* choice '9'
Exit ==
    /\ spc = "menu"
    /\ spc' = "exited"
    /\ UNCHANGED <<story_state, last_append, meta_calls, accepts,
                   pipeline_vars, backend>>

Next ==
    \/ StartStory
    \/ Generate
    \/ Evaluate
    \/ Revise
    \/ AcceptSegment
    \/ ContinueStory
    \/ EndStory
    \/ ContinueWithSuggestion
    \/ RequestChanges
    \/ ChangeTone
    \/ AddCharacter
    \/ ChangeSetting
    \/ NewStory
    \/ Exit

Spec == Init /\ [][Next]_vars

----------------------------------------------------------------------------
(* The parser on its own: every response built from junk and a payload *)

JunkTokens == {LB, RB, WS, Word("ok")}

JunkSeqs == UNION { [1..n -> JunkTokens] : n \in 0..MaxJunk }

Absent == [t |-> "absent"]

VerdictValues ==
    { Absent, JStr(Text("SAFE")), JStr(Text("UNSAFE")), JStr(Text("safe")), JNull }

QualityValues ==
    { Absent, JInt(2), JInt(3), JInt(5), JFloat(37), JStr(Text("4")),
      JStr(Text("good")), JNull, JList(<<>>), JObj }

ConfidenceValues ==
    { Absent, JFloat(45), JInt(3), JStr(Text("4.5")), JStr(Text("high")),
      JNull, JList(<<>>) }

Field(key, v) == IF v.t = "absent" THEN NoFields ELSE key :> v

EvaluationPayloads ==
    { Field("verdict", v) @@ Field("quality_score", q) @@ Field("confidence", c) :
        v \in VerdictValues, q \in QualityValues, c \in ConfidenceValues }

PayloadSeqs == { <<>> } \cup { <<ObjTok(f)>> : f \in EvaluationPayloads }

ParseInputs ==
    { pre \o body \o post : pre \in JunkSeqs, body \in PayloadSeqs, post \in JunkSeqs }

InitParse ==
    /\ spc = "begin"
    /\ story_state = EmptyStoryState
    /\ ppc = "idle"
    /\ call = NoCall
    /\ attempt = 0
    /\ story_segment = EmptyStr
    /\ evaluation = NoEvaluation
    /\ ret = NoResult
    /\ gen_calls = 0
    /\ judge_calls = 0
    /\ revise_calls = 0
    /\ segment_src = "none"
    /\ judged = NotJudged
    /\ last_append = NoAppend
    /\ evaluation_text \in ParseInputs
    /\ parsed = NotParsed
    /\ backend = NoBackend
    /\ meta_calls = 0
    /\ accepts = 0

\* return self._parse_json_evaluation(evaluation_response)
ParseEvaluation ==
    /\ parsed.kind = "none"
    /\ parsed' = _parse_json_evaluation(evaluation_text)
    /\ UNCHANGED <<spc, story_state, ppc, call, attempt, story_segment,
                   evaluation, ret, gen_calls, judge_calls, revise_calls,
                   segment_src, judged, last_append, evaluation_text, backend,
                   meta_calls, accepts>>

NextParse == ParseEvaluation

SpecParse == InitParse /\ [][NextParse]_vars

----------------------------------------------------------------------------
(* The lenient parsers on their own: the Generator, the Reviser and the
   Metadata Extractor on every response built from junk and a payload *)

StoryValues ==
    { Absent, JStr(<<WS, Word("Mia finds a kite"), WS>>), JStr(EmptyStr),
      JInt(7), JNull, JList(<<Text("Mia finds a kite")>>) }

CharactersValues == { Absent, JList(<<Text("Mia")>>) }

SettingValues == { Absent, JStr(Text("a windy hill")) }

StoryPayloads ==
    { Field("story", v) @@ Field("characters", c) @@ Field("setting", g) :
        v \in StoryValues, c \in CharactersValues, g \in SettingValues }

StoryPayloadSeqs == { <<>> } \cup { <<ObjTok(f)>> : f \in StoryPayloads }

ExtractInputs ==
    { pre \o body \o post :
        pre \in JunkSeqs, body \in StoryPayloadSeqs, post \in JunkSeqs }

\* a backend call that has answered with text at its first request
Answered(caller, text) ==
    [caller |-> caller, ok |-> TRUE, text |-> text, trace |-> <<"ok">>,
     slept |-> <<>>]

InitExtract ==
    /\ spc = "begin"
    /\ story_state = EmptyStoryState
    /\ ppc = "idle"
    /\ call = NoCall
    /\ attempt = 0
    /\ story_segment = EmptyStr
    /\ evaluation = NoEvaluation
    /\ ret = NoResult
    /\ gen_calls = 0
    /\ judge_calls = 0
    /\ revise_calls = 0
    /\ segment_src = "none"
    /\ judged = NotJudged
    /\ last_append = NoAppend
    /\ evaluation_text = EmptyStr
    /\ parsed = NotParsed
    /\ \E caller \in {"generator", "reviser", "metadata"} :
         \E text \in ExtractInputs : backend = Answered(caller, text)
    /\ meta_calls = 0
    /\ accepts = 0

\* generate_story_segment after the backend call
ParseGenerated ==
    /\ backend.caller = "generator"
    /\ parsed.kind = "none"
    /\ parsed' = generate_story_segment(backend.text)
    /\ segment_src' = "generator"
    /\ story_segment' = IF parsed'.kind = "text" THEN parsed'.text ELSE story_segment
    /\ UNCHANGED <<spc, story_state, ppc, call, attempt, evaluation, ret,
                   gen_calls, judge_calls, revise_calls, judged, last_append,
                   evaluation_text, backend, meta_calls, accepts>>

\* revise_story_segment after the backend call
ParseRevised ==
    /\ backend.caller = "reviser"
    /\ parsed.kind = "none"
    /\ parsed' = revise_story_segment(backend.text)
    /\ segment_src' = "reviser"
    /\ story_segment' = IF parsed'.kind = "text" THEN parsed'.text ELSE story_segment
    /\ UNCHANGED <<spc, story_state, ppc, call, attempt, evaluation, ret,
                   gen_calls, judge_calls, revise_calls, judged, last_append,
                   evaluation_text, backend, meta_calls, accepts>>

\* update_story_state of a first segment, the backend having answered the
\* extraction prompt
AcceptWithMetadata ==
    /\ backend.caller = "metadata"
    /\ parsed.kind = "none"
    /\ LET st == AppendSegment(story_state, Text("Mia finds a kite"))
           m == ApplyMetadata(st, backend.text)
       IN  /\ parsed' = IF m.kind = "state" THEN [kind |-> "state"] ELSE m
           /\ story_state' = IF m.kind = "state" THEN m.st ELSE st
    /\ meta_calls' = meta_calls + 1
    /\ accepts' = accepts + 1
    /\ UNCHANGED <<spc, ppc, call, attempt, story_segment, evaluation, ret,
                   gen_calls, judge_calls, revise_calls, segment_src, judged,
                   last_append, evaluation_text, backend>>

NextExtract ==
    \/ ParseGenerated
    \/ ParseRevised
    \/ AcceptWithMetadata

SpecExtract == InitExtract /\ [][NextExtract]_vars

----------------------------------------------------------------------------
(* Vocabulary of the properties, stated on the text itself *)

\* a '{' with a '}' at or after it
HasSpan(text) ==
    \E i \in 1..Len(text) : \E j \in i..Len(text) :
        HasOpen(text[i]) /\ HasClose(text[j])

\* the text from its first '{' to its last '}'
SpanOf(text) ==
    LET i == CHOOSE a \in 1..Len(text) :
                 HasOpen(text[a]) /\ \A b \in 1..(a - 1) : ~HasOpen(text[b])
        j == CHOOSE a \in 1..Len(text) :
                 HasClose(text[a]) /\ \A b \in (a + 1)..Len(text) : ~HasClose(text[b])
    IN  SubSeq(text, i, j)

SpanParses(text) == HasSpan(text) /\ json_loads(SpanOf(text)).ok

PayloadOf(text) == json_loads(SpanOf(text)).data

Passes(e) == e.is_safe /\ e.quality_score >= 3

FallbackTexts == {FallbackEnding, FallbackOpening}

----------------------------------------------------------------------------
(* Properties of process_story_segment and of the session *)

\* C1: a returned call has accepted=true exactly when the evaluation of the
\* returned candidate has is_safe=true and quality_score >= 3; the accepted
\* text is the candidate that evaluation was made of
C1_AcceptedIffSafeAndQuality ==
    ppc = "returned" =>
        /\ ret.success <=> (evaluation.is_safe /\ evaluation.quality_score >= 3)
        /\ ret.success => ret.text = judged.text

C1_Witness ==
    /\ ppc = "returned"
    /\ ret.success
    /\ evaluation.quality_score = 3
    /\ judge_calls = 2

\* C2: a call whose last attempt was rejected returns accepted=false with the
\* fallback text of its mode, the ending fallback for is_ending and the other
\* fallback otherwise
C2_RejectedReturnsModeFallback ==
    (ppc = "returned" /\ ~Passes(evaluation)) =>
        /\ ~ret.success
        /\ ret.text = IF call.is_ending THEN FallbackEnding ELSE FallbackOpening
        /\ FallbackEnding # FallbackOpening

C2_Witness ==
    /\ ppc = "returned"
    /\ ~ret.success
    /\ call.is_ending
    /\ ret.text = FallbackEnding

\* C3: the Judge is invoked at most 3 times in one call, and exactly 3 times
\* when the call ends in the fallback
C3_JudgeAtMostThreeTimes ==
    /\ judge_calls <= 3
    /\ (ppc = "returned" /\ ~ret.success) => judge_calls = 3

C3_Witness ==
    /\ ppc = "returned"
    /\ ~ret.success
    /\ judge_calls = 3

\* C4: Generator and Reviser invocations together number at most 3 in one
\* call, and exactly 3 when all attempts are rejected
C4_GeneratorAndReviserAtMostThree ==
    /\ gen_calls + revise_calls <= 3
    /\ (ppc = "returned" /\ ~ret.success) => gen_calls + revise_calls = 3

\* C5: the candidate handed to the Judge is the Generator's output on attempt
\* 0 and the Reviser's output on every later attempt, and the Generator is
\* invoked on attempt 0 only
C5_LaterAttemptsJudgeTheRevision ==
    /\ judge_calls >= 1 =>
          judged.src = IF judged.attempt = 0 THEN "generator" ELSE "reviser"
    /\ gen_calls <= 1

\* C6: when the Judge accepts on attempt k (attempt = k - 1), the call has
\* returned the judged text with accepted=true after exactly k Judge and k - 1
\* Reviser invocations, and for k = 1 after one Generator invocation; the call
\* is over, so nothing is invoked after the acceptance
C6_FirstAcceptanceReturnsAtOnce ==
    Passes(evaluation) =>
        /\ ppc = "returned"
        /\ ret = [text |-> judged.text, success |-> TRUE]
        /\ judged.attempt = attempt
        /\ judge_calls = attempt + 1
        /\ revise_calls = attempt
        /\ attempt = 0 => gen_calls = 1

C6_Witness ==
    /\ ppc = "returned"
    /\ ret.success
    /\ judge_calls = 3
    /\ revise_calls = 2

\* C7: a text appended by update_story_state is a candidate the Judge found
\* safe with quality_score >= 3 in the call that produced it, or a fallback
C7_AppendedIsApprovedOrFallback ==
    last_append.made =>
        \/ last_append.approved
        \/ last_append.text \in FallbackTexts

C7_Witness ==
    /\ last_append.made
    /\ last_append.approved
    /\ story_state.segment_count = 2
    /\ spc = "menu"

----------------------------------------------------------------------------
(* Properties of _parse_json_evaluation *)

\* C8: a response with no '{'..'}' span, or whose span is not JSON, parses to
\* the conservative evaluation, which the gate rejects
C8_UnparseableGivesConservative ==
    (parsed.kind # "none" /\ ~SpanParses(evaluation_text)) =>
        /\ parsed.kind = "eval"
        /\ parsed.e =
             [is_safe |-> FALSE, quality_score |-> 1,
              specific_concerns |->
                  JList(<<Text("Unable to parse evaluation response")>>),
              revision_suggestions |->
                  JList(<<Text("Please generate more appropriate content for children")>>),
              confidence |-> 10]
        /\ ~Accepts(parsed.e)

C8_Witness ==
    /\ parsed.kind = "eval"
    /\ HasSpan(evaluation_text)
    /\ ~SpanParses(evaluation_text)
    /\ \E i \in 1..Len(evaluation_text) : evaluation_text[i].k = "obj"

\* C9: a payload whose quality_score or confidence cannot be coerced never
\* makes the parser raise: it parses to the conservative evaluation
C9_CoercionFailureGivesConservative ==
    (/\ parsed.kind # "none"
     /\ SpanParses(evaluation_text)
     /\ \/ ~py_int(Get(PayloadOf(evaluation_text), "quality_score", JInt(1))).ok
        \/ ~py_float(Get(PayloadOf(evaluation_text), "confidence", JFloat(10))).ok)
    => parsed = Returned(ConservativeEvaluation)

----------------------------------------------------------------------------
(* The narrative state, the backend calls and the session *)

InPipeline == ppc \in {"generate", "evaluate", "revise"}

\* C11: no step of process_story_segment changes the narrative state, whether
\* the step leads to acceptance, to the fallback or to a propagated failure
C11_PipelineKeepsNarrativeState ==
    [][InPipeline => story_state' = story_state]_vars

C11_Witness ==
    /\ ppc = "returned"
    /\ ~ret.success
    /\ judge_calls = max_retry_attempts
    /\ story_state.segment_count = 1
    /\ story_state.full_story # EmptyStr

\* a step that is one update_story_state call
AcceptStep == accepts' = accepts + 1

\* C12: every update_story_state call raises segment_count by exactly 1, and
\* it runs the metadata extractor if and only if the count it leaves is 1
C12_AcceptCountsAndExtractsAtOne ==
    [][AcceptStep =>
          /\ story_state'.segment_count = story_state.segment_count + 1
          /\ meta_calls' \in {meta_calls, meta_calls + 1}
          /\ (meta_calls' = meta_calls + 1 <=> story_state'.segment_count = 1)]_vars

C12_Witness ==
    /\ accepts = 2
    /\ story_state.segment_count = 2
    /\ meta_calls = 1
    /\ last_append.made
    /\ ppc = "idle"

\* C13: between two resets the metadata extractor runs at most once, and it
\* runs in the first accept; no later accept and no rewrite runs it again,
\* not even after a rewrite that has left the transcript empty
C13_MetadataOncePerStory ==
    [][/\ meta_calls' <= 1
       /\ meta_calls' > meta_calls => (AcceptStep /\ accepts = 0)]_vars

C13_Witness ==
    /\ meta_calls = 1
    /\ story_state.segment_count = 2
    /\ last_append.made
    /\ story_state.full_story = last_append.text

RewriteOperations ==
    {"request_story_changes", "change_story_tone", "add_new_character",
     "change_story_setting"}

\* a step that is one whole-story rewrite, successful or not
RewriteStep ==
    /\ spc = "menu"
    /\ spc' = "menu"
    /\ backend'.caller \in RewriteOperations

\* a step that is the reset at the start of start_new_story
ResetStep == spc = "menu" /\ call'.site = "new"

\* C14: segment_count is the number of update_story_state calls since the
\* last reset; only the reset lowers it, and a rewrite leaves it as it was
C14_CountIsAcceptsSinceReset ==
    [][/\ story_state'.segment_count = accepts'
       /\ story_state'.segment_count < story_state.segment_count => ResetStep
       /\ RewriteStep =>
             story_state'.segment_count = story_state.segment_count]_vars

C14_Witness ==
    /\ story_state.segment_count = 2
    /\ accepts = 2
    /\ backend.caller = "change_story_tone"
    /\ backend.ok
    /\ story_state.full_story = Strip(backend.text)

\* C15: one call_model call makes at most 3 requests; a request is followed
\* by another only if it failed with a rate limit and was not the third; the
\* delays before the second and third request are 1 s and 2 s; a failure that
\* is not a rate limit is never retried
C15_RetriesOnlyRateLimits ==
    backend.caller # "none" =>
        /\ Len(backend.trace) \in 1..3
        /\ \A i \in 1..(Len(backend.trace) - 1) : backend.trace[i] = "429"
        /\ Len(backend.slept) = Len(backend.trace) - 1
        /\ \A i \in 1..Len(backend.slept) : backend.slept[i] = 2 ^ (i - 1)
        /\ backend.ok <=> backend.trace[Len(backend.trace)] = "ok"

PipelineCallers == {"generator", "judge", "reviser"}

\* C16: the retries inside call_model take nothing from the pipeline's
\* attempts: whatever requests the backend calls needed, the attempt counter
\* moves on by one and only after a rejection by the Judge, the number of
\* Judge evaluations follows the attempt counter, and the fallback is returned
\* only after max_retry_attempts Judge evaluations
C16_RetriesLeaveAttemptBudget ==
    [][/\ attempt' > attempt =>
             /\ attempt' = attempt + 1
             /\ judge_calls = attempt + 1
             /\ ~Accepts(evaluation)
       /\ ppc' \in {"generate", "evaluate"} => judge_calls' = attempt'
       /\ ppc' = "revise" => judge_calls' = attempt' + 1
       /\ (ppc' = "returned" /\ ~ret'.success) =>
             judge_calls' = max_retry_attempts]_vars

C16_Witness ==
    /\ ppc = "returned"
    /\ ~ret.success
    /\ judge_calls = max_retry_attempts
    /\ backend.caller = "judge"
    /\ backend.trace = <<"429", "429", "ok">>

\* C17: a backend call of the Generator, the Judge or the Reviser that
\* call_model ends with a failure ends process_story_segment with that
\* failure: no result is returned, the fallback story is not substituted
C17_BackendFailurePropagates ==
    (backend.caller \in PipelineCallers /\ ~backend.ok) =>
        /\ ppc = "raised"
        /\ ret = NoResult
        /\ spc = "crashed"

C17_Witness ==
    /\ ppc = "raised"
    /\ backend.caller = "reviser"
    /\ backend.trace = <<"429", "429", "429">>
    /\ ~backend.ok

\* C18: a whole-story rewrite that succeeds, whichever of the four it is,
\* puts the backend's response (as the rewrite operation returns it, without
\* its surrounding whitespace) in the place of the whole transcript, changes
\* no other field of the narrative state, segment_count included, and
\* invokes no Judge
C18_RewriteReplacesTranscript ==
    [][(RewriteStep /\ backend'.ok) =>
          /\ story_state' =
                [story_state EXCEPT !.full_story = Strip(backend'.text)]
          /\ story_state'.segment_count = story_state.segment_count
          /\ judge_calls' = judge_calls
          /\ ppc' = "idle"]_vars

C18_Witness ==
    /\ spc = "menu"
    /\ backend.caller = "add_new_character"
    /\ backend.ok
    /\ story_state.segment_count = 1
    /\ story_state.full_story = Strip(backend.text)
    /\ story_state.full_story # EmptyStr
    /\ story_state.full_story # story_state.current_segment

\* C19: the reset of start_new_story leaves the narrative state empty
\* whatever it was: no transcript, no characters, empty setting and theme,
\* segment_count 0; and the accept of the new story's first segment brings
\* segment_count to 1 and runs the metadata extractor
C19_ResetEmptiesNarrativeState ==
    [][/\ ResetStep =>
             /\ story_state'.full_story = <<>>
             /\ story_state'.characters = JList(<<>>)
             /\ story_state'.setting = JStr(<<>>)
             /\ story_state'.theme = JStr(<<>>)
             /\ story_state'.current_segment = <<>>
             /\ story_state'.segment_count = 0
       /\ (AcceptStep /\ call.site = "new") =>
             /\ story_state'.segment_count = 1
             /\ meta_calls' = meta_calls + 1
             /\ backend'.caller = "metadata"]_vars

C19_Witness ==
    /\ call.site = "new"
    /\ ppc = "generate"
    /\ last_append.made
    /\ story_state.segment_count = 0
    /\ story_state.full_story = <<>>

IsPrefix(s, t) == Len(s) <= Len(t) /\ SubSeq(t, 1, Len(s)) = s

\* C20: update_story_state only appends: on a non-empty transcript the
\* result is the old transcript, a blank line and the segment; on an empty
\* one it is the segment alone; the old transcript is a prefix of the new
C20_AcceptAppends ==
    [][AcceptStep =>
          /\ story_state'.full_story =
                IF story_state.full_story = <<>>
                THEN ret.text
                ELSE story_state.full_story \o <<[k |-> "ws", w |-> "\n\n"]>>
                                            \o ret.text
          /\ IsPrefix(story_state.full_story, story_state'.full_story)]_vars

C20_Witness ==
    /\ story_state.segment_count = 2
    /\ last_append.made
    /\ \E i \in 2..(Len(story_state.full_story) - 1) :
          /\ story_state.full_story[i] = [k |-> "ws", w |-> "\n\n"]
          /\ SubSeq(story_state.full_story, i + 1, Len(story_state.full_story))
                = last_append.text

\* the "story" field of the response's JSON object, when it has one that is
\* text
HasStoryText(text) ==
    /\ SpanParses(text)
    /\ "story" \in DOMAIN PayloadOf(text)
    /\ PayloadOf(text)["story"].t = "str"

\* C21: the Generator and the Reviser raise on no response: for a response
\* whose '{'..'}' span parses and holds a textual story field they return
\* that field, and for every other response (no span, invalid JSON, no story
\* field, a story field that is not text) the whole response; both without
\* the surrounding whitespace
C21_LenientStoryParsing ==
    segment_src \in {"generator", "reviser"} =>
        /\ parsed.kind = "text"
        /\ story_segment = parsed.text
        /\ parsed.text = IF HasStoryText(backend.text)
                         THEN Strip(PayloadOf(backend.text)["story"].s)
                         ELSE Strip(backend.text)

C21_Witness ==
    /\ segment_src = "reviser"
    /\ SpanParses(backend.text)
    /\ "story" \in DOMAIN PayloadOf(backend.text)
    /\ PayloadOf(backend.text)["story"].t = "int"
    /\ parsed = ReturnedText(Strip(backend.text))

\* C22: when the response to the extraction prompt has no '{'..'}' span, or a
\* span that is not valid JSON, the accept ends without an error and with
\* characters = ["Main character"], setting = "A friendly place" and
\* theme = "Adventure"
C22_MetadataFallbackValues ==
    (backend.caller = "metadata" /\ parsed.kind # "none"
        /\ ~SpanParses(backend.text)) =>
        /\ parsed.kind = "state"
        /\ story_state.characters = JList(<<Text("Main character")>>)
        /\ story_state.setting = JStr(Text("A friendly place"))
        /\ story_state.theme = JStr(Text("Adventure"))
        /\ story_state.segment_count = 1

C22_Witness ==
    /\ backend.caller = "metadata"
    /\ parsed.kind = "state"
    /\ HasSpan(backend.text)
    /\ ~SpanParses(backend.text)
    /\ \E i \in 1..Len(backend.text) : backend.text[i].k = "obj"
    /\ story_state.setting = JStr(Text("A friendly place"))

Metadata(st) == <<st.characters, st.setting, st.theme>>

\* C23: characters, setting and theme change only in the first accept of a
\* story, where the metadata extractor runs, and in the reset; the steps of
\* process_story_segment, the later accepts and the four rewrites keep them
C23_MetadataWrittenByExtractionAndReset ==
    [][/\ Metadata(story_state') # Metadata(story_state) =>
             \/ ResetStep
             \/ AcceptStep /\ accepts = 0 /\ meta_calls' = meta_calls + 1
       /\ (InPipeline \/ RewriteStep \/ (AcceptStep /\ accepts > 0)) =>
             Metadata(story_state') = Metadata(story_state)]_vars

C23_Witness ==
    /\ story_state.segment_count = 2
    /\ backend.caller = "change_story_setting"
    /\ backend.ok
    /\ story_state.full_story = Strip(backend.text)
    /\ story_state.setting = JStr(Text("a windy hill"))
    /\ story_state.characters = JList(<<Text("Mia")>>)

PipelineDone == ppc \in {"returned", "raised"}

\* the backend calls process_story_segment has started
PipelineCalls == gen_calls + judge_calls + revise_calls

\* C24: a process_story_segment call whose backend calls each return or fail
\* comes to an end: every step of it is one more backend call of the
\* Generator, the Judge or the Reviser and leaves the call running, returned
\* (an accepted candidate, or the fallback) or raised, and there are never
\* more than max_retry_attempts calls of each, the loop counter staying below
\* max_retry_attempts; so it cannot loop on repeated rejections
C24_PipelineTerminates ==
    [][/\ InPipeline =>
             /\ PipelineCalls' = PipelineCalls + 1
             /\ InPipeline' \/ PipelineDone'
             /\ attempt' < max_retry_attempts
             /\ gen_calls' <= max_retry_attempts
             /\ judge_calls' <= max_retry_attempts
             /\ revise_calls' <= max_retry_attempts - 1
       /\ (ppc' = "returned" /\ ppc # "returned") =>
             \/ ret'.success
             \/ ret' = FallbackResult(call.is_ending)]_vars

C24_Witness ==
    /\ ppc = "returned"
    /\ ~ret.success
    /\ gen_calls = max_retry_attempts
    /\ judge_calls = max_retry_attempts
    /\ revise_calls = max_retry_attempts - 1
    /\ attempt = max_retry_attempts - 1

TurnSites == {"initial", "continue", "suggest", "end"}

\* C25: a start, continue, continue-with-suggestion or end turn whose
\* pipeline call has returned makes one update_story_state call with the
\* returned text, accepted or not: the text becomes the current segment and
\* the end of the transcript, segment_count grows by 1, and the call's
\* result is used up
C25_EveryReturnedTurnAccepts ==
    [][(ppc = "returned" /\ call.site \in TurnSites) =>
          /\ AcceptStep
          /\ ppc' = "idle"
          /\ story_state'.current_segment = ret.text
          /\ story_state'.segment_count = story_state.segment_count + 1
          /\ Len(story_state'.full_story) >= Len(ret.text)
          /\ SubSeq(story_state'.full_story,
                    Len(story_state'.full_story) - Len(ret.text) + 1,
                    Len(story_state'.full_story)) = ret.text]_vars

C25_Witness ==
    /\ spc = "ended"
    /\ last_append.made
    /\ ~last_append.approved
    /\ last_append.text = FallbackEnding
    /\ story_state.current_segment = FallbackEnding
    /\ story_state.segment_count = 2

\* a step that is a whole-story rewrite whose backend call failed
FailedRewriteStep ==
    /\ spc = "menu"
    /\ spc' # "exited"
    /\ backend'.caller \in RewriteOperations
    /\ ~backend'.ok

\* C26: a whole-story rewrite whose backend call fails changes nothing of
\* the narrative state (transcript, characters, setting, theme, segment_count
\* and current segment keep their values) and the session is back at the
\* menu
C26_FailedRewriteKeepsState ==
    [][FailedRewriteStep =>
          /\ story_state' = story_state
          /\ spc' = "menu"
          /\ ppc' = "idle"
          /\ accepts' = accepts]_vars

C26_Witness ==
    /\ spc = "menu"
    /\ backend.caller = "request_story_changes"
    /\ ~backend.ok
    /\ backend.trace = <<"429", "error">>
    /\ story_state.segment_count = 2
    /\ story_state.full_story # EmptyStr

====
